---- MODULE Spec2Model ----
(***************************************************************************)
(* Transactional column store of transakce.py: class Column (a dict        *)
(* `_vals` of committed values, a staging dict `trans_dict`, a list        *)
(* `to_del` of keys staged for deletion and the flag `transaction_marker`) *)
(* and class Database, which owns one Column per table name.               *)
(*                                                                         *)
(* A Python dict is a function whose DOMAIN is its key set; a dict given   *)
(* as an argument is the sequence of its <<key, value>> items in iteration *)
(* order (keys distinct); a Python list is a sequence.                     *)
(***************************************************************************)
EXTENDS Integers, Sequences, FiniteSets, TLC

\* ------------------------------------------------------------------ bounds
MaxKey == 2         \* keys are 10, 20, ... 10 * MaxKey
MaxLen == 2         \* longest dict given to insert / longest list given to delete
MaxToDel == 2       \* longest to_del list the model lets a transaction build

Keys == {10 * i : i \in 1..MaxKey}
\* the values stored: insert, delete, commit and rollback never look at a value,
\* so two different ones (the first two of the walkthrough) tell every case apart
Values == {10, 11}

\* Database(tables=['temperature', 'pressure'])
tables == <<"temperature", "pressure">>
TableNames == {tables[i] : i \in DOMAIN tables}

\* ------------------------------------------------------------ dict helpers
Range(s) == {s[i] : i \in DOMAIN s}

\* values.keys(), in iteration order
keys_of(values) == [i \in DOMAIN values |-> values[i][1]]

\* the keys of a dict argument, as a set
BatchKeys(values) == Range(keys_of(values))

\* the dict a sequence of items denotes
dict_of(values) ==
    [k \in Range(keys_of(values)) |->
        values[CHOOSE i \in DOMAIN values : values[i][1] = k][2]]

\* d.update(e) got wrong: an entry of d is kept (setdefault for every item)
dict_update_keep(d, e) ==
    [k \in DOMAIN d \cup DOMAIN e |-> IF k \in DOMAIN d THEN d[k] ELSE e[k]]

\* d.update(e)
dict_update(d, e) ==
    [k \in DOMAIN d \cup DOMAIN e |-> IF k \in DOMAIN e THEN e[k] ELSE d[k]]

\* d.pop(key) for a key of d
dict_pop(d, key) == [k \in DOMAIN d \ {key} |-> d[k]]

EmptyDict == [k \in {} |-> 0]

\* every dict literal of at most MaxLen items: sequences of items with distinct keys
Batches ==
    {values \in UNION {[1..n -> Keys \X Values] : n \in 0..MaxLen} :
        \A i, j \in DOMAIN values : i # j => values[i][1] # values[j][1]}

\* every list of at most MaxLen keys (repeats and absent keys included)
KeyLists == UNION {[1..n -> Keys] : n \in 0..MaxLen}

\* ------------------------------------------------------------------- state
VARIABLES
    columns,     \* Database.__dict__[a] for a in tables: the Column objects
    call,        \* the latest method call: [op, col]
    raised,      \* the exception the latest call raised: [type, key]
    begun,       \* per column: transaction() was called and only insert/delete since
    begin_vals,  \* per column: _vals when transaction() was last called
    cancelled    \* per column: keys staged by insert, then passed to delete and
                 \* not inserted again, in the transaction that is open

history == <<begun, begin_vals, cancelled>>
vars == <<columns, call, raised, begun, begin_vals, cancelled>>

\* Column.__init__
Column_init ==
    [_vals |-> EmptyDict, transaction_marker |-> FALSE,
     trans_dict |-> EmptyDict, to_del |-> <<>>]

NoError == [type |-> "None", key |-> 0]
OverwriteNotAllowed(key) == [type |-> "OverwriteNotAllowed", key |-> key]
KeyError(key) == [type |-> "KeyError", key |-> key]

\* Database.__init__
Init ==
    /\ columns = [a \in TableNames |-> Column_init]
    /\ call = [op |-> "__init__", col |-> ""]
    /\ raised = NoError
    /\ begun = [a \in TableNames |-> FALSE]
    /\ begin_vals = [a \in TableNames |-> EmptyDict]
    /\ cancelled = [a \in TableNames |-> {}]

\* ----------------------------------------------------------- Column methods
\* Each method is an operator from the object (`self`) and the argument to
\* [self |-> the object afterwards, raised |-> the exception raised].

\* insert's check got wrong: a key staged for deletion is let through
insert_check_skips_deleted(self, values) ==
    LET hit == {i \in DOMAIN values :
                    /\ values[i][1] \in DOMAIN self._vals
                    /\ values[i][1] \notin Range(self.to_del)}
    IN  IF hit = {} THEN 0 ELSE CHOOSE i \in hit : \A j \in hit : i <= j

\* insert's check got wrong: only the first key of values is looked up
insert_check_first_only(self, values) ==
    IF values # <<>> /\ values[1][1] \in DOMAIN self._vals THEN 1 ELSE 0

\* insert, lines 68-70: the index of the first key of values that is a key of
\* _vals (0 when there is none)
insert_check(self, values) ==
    LET hit == {i \in DOMAIN values : values[i][1] \in DOMAIN self._vals}
    IN  IF hit = {} THEN 0 ELSE CHOOSE i \in hit : \A j \in hit : i <= j

\* insert's store got wrong: _vals is updated whatever transaction_marker is
insert_store_direct(self, values) ==
    [self EXCEPT !._vals = dict_update(self._vals, dict_of(values))]

\* insert's store got wrong: trans_dict is updated whatever transaction_marker is
insert_store_staged(self, values) ==
    [self EXCEPT !.trans_dict = dict_update(self.trans_dict, dict_of(values))]

\* insert, lines 72-75 (reached when no key is refused)
insert_store(self, values) ==
    IF self.transaction_marker
    THEN [self EXCEPT !.trans_dict = dict_update(self.trans_dict, dict_of(values))]
    ELSE [self EXCEPT !._vals = dict_update(self._vals, dict_of(values))]

insert(self, values) ==
    LET i == insert_check(self, values)
    IN  IF i # 0
        THEN [self |-> self, raised |-> OverwriteNotAllowed(values[i][1])]
        ELSE [self |-> insert_store(self, values), raised |-> NoError]

\* delete got wrong: a key popped from trans_dict is recorded in to_del as well
delete_staged_key_both(self, key) ==
    IF key \in DOMAIN self.trans_dict
    THEN [self EXCEPT !.trans_dict = dict_pop(self.trans_dict, key),
                      !.to_del = Append(self.to_del, key)]
    ELSE IF key \in DOMAIN self._vals
         THEN [self EXCEPT !.to_del = Append(self.to_del, key)]
         ELSE self

\* delete, lines 94-97: one turn of the loop with the transaction ON
delete_staged_key(self, key) ==
    IF key \in DOMAIN self.trans_dict
    THEN [self EXCEPT !.trans_dict = dict_pop(self.trans_dict, key)]
    ELSE IF key \in DOMAIN self._vals
         THEN [self EXCEPT !.to_del = Append(self.to_del, key)]
         ELSE self

\* delete got wrong: with the transaction OFF the key is recorded in to_del
delete_now_key_staged(self, key) ==
    IF key \in DOMAIN self._vals
    THEN [self EXCEPT !.to_del = Append(self.to_del, key)]
    ELSE self

\* delete, lines 100-101: one turn of the loop with the transaction OFF
delete_now_key(self, key) ==
    IF key \in DOMAIN self._vals
    THEN [self EXCEPT !._vals = dict_pop(self._vals, key)]
    ELSE self

RECURSIVE delete_loop(_, _)
delete_loop(self, keys) ==
    IF keys = <<>> THEN self
    ELSE delete_loop(
            IF self.transaction_marker
            THEN delete_staged_key(self, Head(keys))
            ELSE delete_now_key(self, Head(keys)),
            Tail(keys))

delete(self, keys) == [self |-> delete_loop(self, keys), raised |-> NoError]

\* transaction got wrong: the flag is toggled
transaction_toggles(self) ==
    [self |-> [self EXCEPT !.transaction_marker = ~self.transaction_marker],
     raised |-> NoError]

\* transaction got wrong: a new transaction starts with empty staging buffers
transaction_resets(self) ==
    [self |-> [self EXCEPT !.transaction_marker = TRUE, !.trans_dict = EmptyDict,
                           !.to_del = <<>>],
     raised |-> NoError]

\* transaction
transaction(self) ==
    [self |-> [self EXCEPT !.transaction_marker = TRUE], raised |-> NoError]

\* rollback got wrong: to_del is not cleared
rollback_keeps_to_del(self) ==
    [self |-> [self EXCEPT !.trans_dict = EmptyDict, !.transaction_marker = FALSE],
     raised |-> NoError]

\* rollback
rollback(self) ==
    [self |-> [self EXCEPT !.trans_dict = EmptyDict, !.to_del = <<>>,
                           !.transaction_marker = FALSE],
     raised |-> NoError]

\* commit, lines 117-118: _vals.pop(key) for key in to_del; pop of a key that
\* is not in the dict raises KeyError and ends the loop
RECURSIVE commit_pops(_, _)
commit_pops(d, to_del) ==
    IF to_del = <<>> THEN [_vals |-> d, raised |-> NoError]
    ELSE IF Head(to_del) \notin DOMAIN d
         THEN [_vals |-> d, raised |-> KeyError(Head(to_del))]
         ELSE commit_pops(dict_pop(d, Head(to_del)), Tail(to_del))

\* commit got wrong: the flag is cleared first, so a pop that raises leaves the
\* buffers filled with the transaction off
commit_flag_first(self) ==
    LET popped == commit_pops(dict_update(self._vals, self.trans_dict), self.to_del)
    IN  IF popped.raised = NoError
        THEN [self |-> [_vals |-> popped._vals, trans_dict |-> EmptyDict,
                        to_del |-> <<>>, transaction_marker |-> FALSE],
              raised |-> NoError]
        ELSE [self |-> [self EXCEPT !._vals = popped._vals,
                                    !.transaction_marker = FALSE],
              raised |-> popped.raised]

\* commit got wrong: _vals is replaced by trans_dict instead of updated with it
commit_replaces(self) ==
    LET popped == commit_pops(self.trans_dict, self.to_del)
    IN  IF popped.raised = NoError
        THEN [self |-> [_vals |-> popped._vals, trans_dict |-> EmptyDict,
                        to_del |-> <<>>, transaction_marker |-> FALSE],
              raised |-> NoError]
        ELSE [self |-> [self EXCEPT !._vals = popped._vals],
              raised |-> popped.raised]

\* commit: the exception leaves the method before lines 120-122
commit(self) ==
    LET popped == commit_pops(dict_update(self._vals, self.trans_dict), self.to_del)
    IN  IF popped.raised = NoError
        THEN [self |-> [_vals |-> popped._vals, trans_dict |-> EmptyDict,
                        to_del |-> <<>>, transaction_marker |-> FALSE],
              raised |-> NoError]
        ELSE [self |-> [self EXCEPT !._vals = popped._vals],
              raised |-> popped.raised]

\* mean: the mean of the values of _vals as the fraction <<sum, count>>
RECURSIVE dict_sum(_)
dict_sum(d) ==
    IF DOMAIN d = {} THEN 0
    ELSE LET k == CHOOSE x \in DOMAIN d : TRUE IN d[k] + dict_sum(dict_pop(d, k))

mean(self) == <<dict_sum(self._vals), Cardinality(DOMAIN self._vals)>>

\* ------------------------------------------------------------------ actions
\* db.<a>.insert(values)
Insert(a, values) ==
    LET r == insert(columns[a], values) IN
    /\ columns' = [columns EXCEPT ![a] = r.self]
    /\ call' = [op |-> "insert", col |-> a]
    /\ raised' = r.raised

\* db.<a>.delete(keys)
Delete(a, keys) ==
    LET r == delete(columns[a], keys) IN
    /\ Len(r.self.to_del) <= MaxToDel
    /\ columns' = [columns EXCEPT ![a] = r.self]
    /\ call' = [op |-> "delete", col |-> a]
    /\ raised' = r.raised

\* db.<a>.transaction()
Transaction(a) ==
    LET r == transaction(columns[a]) IN
    /\ columns' = [columns EXCEPT ![a] = r.self]
    /\ call' = [op |-> "transaction", col |-> a]
    /\ raised' = r.raised

\* db.<a>.rollback()
Rollback(a) ==
    LET r == rollback(columns[a]) IN
    /\ columns' = [columns EXCEPT ![a] = r.self]
    /\ call' = [op |-> "rollback", col |-> a]
    /\ raised' = r.raised

\* Commit got wrong: one transaction for the whole Database, commit() on a
\* column commits every column
CommitAll(a) ==
    LET r == commit(columns[a]) IN
    /\ columns' = [b \in TableNames |->
                        IF b = a THEN r.self ELSE commit(columns[b]).self]
    /\ call' = [op |-> "commit", col |-> a]
    /\ raised' = r.raised

\* db.<a>.commit()
Commit(a) ==
    LET r == commit(columns[a]) IN
    /\ columns' = [columns EXCEPT ![a] = r.self]
    /\ call' = [op |-> "commit", col |-> a]
    /\ raised' = r.raised

\* the walkthrough's caller: every call goes to db.temperature
Next ==
    \/ \E values \in Batches : Insert(tables[1], values) /\ UNCHANGED history
    \/ \E keys \in KeyLists : Delete(tables[1], keys) /\ UNCHANGED history
    \/ Transaction(tables[1]) /\ UNCHANGED history
    \/ Rollback(tables[1]) /\ UNCHANGED history
    \/ Commit(tables[1]) /\ UNCHANGED history

Spec == Init /\ [][Next]_vars

\* ---------------------------------------------- the same calls, with history
\* begun, begin_vals and cancelled record what the caller did since
\* transaction(); the Column never reads them.
InsertNoted(a, values) ==
    /\ Insert(a, values)
    /\ cancelled' = [cancelled EXCEPT ![a] =
            IF raised' = NoError /\ columns[a].transaction_marker
            THEN @ \ Range(keys_of(values)) ELSE @]
    /\ UNCHANGED <<begun, begin_vals>>

DeleteNoted(a, keys) ==
    /\ Delete(a, keys)
    /\ cancelled' = [cancelled EXCEPT ![a] =
            IF columns[a].transaction_marker
            THEN @ \cup (Range(keys) \cap DOMAIN columns[a].trans_dict) ELSE @]
    /\ UNCHANGED <<begun, begin_vals>>

TransactionNoted(a) ==
    /\ Transaction(a)
    /\ begun' = [begun EXCEPT ![a] = TRUE]
    /\ begin_vals' = [begin_vals EXCEPT ![a] = columns[a]._vals]
    /\ UNCHANGED cancelled

RollbackNoted(a) ==
    /\ Rollback(a)
    /\ begun' = [begun EXCEPT ![a] = FALSE]
    /\ begin_vals' = [begin_vals EXCEPT ![a] = EmptyDict]
    /\ cancelled' = [cancelled EXCEPT ![a] = {}]

\* a commit() that raises leaves the transaction open
CommitNoted(a) ==
    /\ Commit(a)
    /\ begun' = [begun EXCEPT ![a] = FALSE]
    /\ begin_vals' = [begin_vals EXCEPT ![a] = EmptyDict]
    /\ cancelled' = [cancelled EXCEPT ![a] = IF raised' = NoError THEN {} ELSE @]

NextNoted ==
    \/ \E values \in Batches : InsertNoted(tables[1], values)
    \/ \E keys \in KeyLists : DeleteNoted(tables[1], keys)
    \/ TransactionNoted(tables[1])
    \/ RollbackNoted(tables[1])
    \/ CommitNoted(tables[1])

SpecNoted == Init /\ [][NextNoted]_vars

\* ------------------------------------------------------- the whole Database
\* db.<name>: Python looks the name up in db.__dict__ (lines 142-146: _vars,
\* tables, then one Column per table name, a later entry replacing an earlier
\* one), then in the classes Database and Column, and raises AttributeError
\* when it is in neither.
ColumnMethods == {"insert", "delete", "mean", "transaction", "rollback", "commit"}
AttributeError == [type |-> "AttributeError", key |-> 0]

getattr(name) ==
    IF name \in TableNames
    THEN [value |-> [kind |-> "Column", name |-> name], raised |-> NoError]
    ELSE IF name \in {"_vars", "tables"}
    THEN [value |-> [kind |-> "attribute", name |-> name], raised |-> NoError]
    ELSE IF name \in ColumnMethods
    THEN [value |-> [kind |-> "method", name |-> name], raised |-> NoError]
    ELSE [value |-> [kind |-> "nothing", name |-> name], raised |-> AttributeError]

\* the names the caller looks up: the tables, other attributes of db, a name
\* db does not have
Names == TableNames \cup {"tables", "_vars", "insert", "humidity"}

Getattr(name) ==
    /\ call' = [op |-> "getattr", col |-> name]
    /\ raised' = getattr(name).raised
    /\ UNCHANGED columns

\* The caller of both columns passes the smallest key only, so that the two
\* columns together stay small.
DbKeys == {k \in Keys : \A j \in Keys : k <= j}
DbBatches == {values \in Batches : BatchKeys(values) \subseteq DbKeys}
DbKeyLists == {keys \in KeyLists : Range(keys) \subseteq DbKeys}

NextDB ==
    \/ \E a \in TableNames : \E values \in DbBatches :
            Insert(a, values) /\ UNCHANGED history
    \/ \E a \in TableNames : \E keys \in DbKeyLists :
            Delete(a, keys) /\ UNCHANGED history
    \/ \E a \in TableNames : Transaction(a) /\ UNCHANGED history
    \/ \E a \in TableNames : Rollback(a) /\ UNCHANGED history
    \/ \E a \in TableNames : Commit(a) /\ UNCHANGED history
    \/ \E name \in Names : Getattr(name) /\ UNCHANGED history

SpecDB == Init /\ [][NextDB]_vars

\* ------------------------------------------------------- claim vocabulary
Count(k, seq) == Cardinality({i \in DOMAIN seq : seq[i] = k})
Clash(self, values) == BatchKeys(values) \cap DOMAIN self._vals
Failing == {"delete", "transaction", "rollback", "commit"}

\* The column the latest call acted on. A Column changes only in a call on it,
\* so every state a Column reaches is the state of the called column right
\* after some call (the state after construction is also the state after a
\* rollback() on a new Column).
Called == {a \in TableNames : a = call.col}

\* C1: in every reachable state of a Column, in a transaction or not, insert of
\* a batch with at least one key of _vals raises OverwriteNotAllowed for a key
\* of the batch that is in _vals, and leaves _vals, trans_dict, to_del and
\* transaction_marker as they were: no key of the batch is applied.
C1_InsertRefusesWhole ==
    \A a \in Called : \A values \in Batches :
        Clash(columns[a], values) # {} =>
            \E key \in Clash(columns[a], values) :
                insert(columns[a], values) =
                    [self |-> columns[a], raised |-> OverwriteNotAllowed(key)]

\* C1 witness: an insert has just been refused inside a transaction that holds
\* staged inserts, for a two-key batch whose other key is not in _vals.
C1_Witness ==
    LET self == columns[tables[1]] IN
    /\ call.op = "insert"
    /\ raised.type = "OverwriteNotAllowed"
    /\ self.transaction_marker
    /\ DOMAIN self.trans_dict # {}
    /\ \E values \in Batches :
        /\ Len(values) = 2
        /\ BatchKeys(values) \ DOMAIN self._vals # {}
        /\ insert(self, values).raised = raised

\* what commit is claimed to leave in _vals: begin overridden by staged, the
\* keys of to_del removed
NetEffect(begin, staged, to_del) ==
    [k \in (DOMAIN begin \cup DOMAIN staged) \ Range(to_del) |->
        IF k \in DOMAIN staged THEN staged[k] ELSE begin[k]]

\* C2 (as claimed): a commit() that follows transaction() and only insert and
\* delete calls raises nothing, leaves _vals equal to the _vals of transaction()
\* overridden by trans_dict with every key of to_del removed, and leaves
\* transaction_marker False, trans_dict and to_del empty.
C2_CommitAppliesStaged ==
    [][\A a \in TableNames :
        (call'.op = "commit" /\ call'.col = a /\ begun[a]) =>
            /\ raised' = NoError
            /\ columns'[a]._vals =
                 NetEffect(begin_vals[a], columns[a].trans_dict, columns[a].to_del)
            /\ columns'[a].transaction_marker = FALSE
            /\ columns'[a].trans_dict = EmptyDict
            /\ columns'[a].to_del = <<>>]_vars

\* C3 (as claimed): delete, transaction, rollback and commit never raise.
C3_NeverFail == call.op \in Failing => raised = NoError

\* C4: rollback() after transaction() and only insert and delete calls (refused
\* inserts included) leaves _vals equal to its value when transaction() was
\* called, transaction_marker False, and trans_dict and to_del empty.
C4_RollbackRestores ==
    [][\A a \in TableNames :
        (call'.op = "rollback" /\ call'.col = a /\ begun[a]) =>
            /\ raised' = NoError
            /\ columns'[a]._vals = begin_vals[a]
            /\ columns'[a].transaction_marker = FALSE
            /\ columns'[a].trans_dict = EmptyDict
            /\ columns'[a].to_del = <<>>]_vars

\* C4 witness: a transaction that began on a non-empty column and has since
\* staged an insert and a delete and seen an insert refused: the state
\* rollback() acts on.
C4_Witness ==
    LET self == columns[tables[1]] IN
    /\ begun[tables[1]]
    /\ call.op = "insert"
    /\ raised.type = "OverwriteNotAllowed"
    /\ DOMAIN self.trans_dict # {}
    /\ self.to_del # <<>>
    /\ rollback(self).self # self

\* C5: while the transaction is on, no insert and no delete changes _vals; from
\* transaction() until commit() or rollback() is called _vals, and so the mean,
\* is what it was at transaction().
C5_StagingLeavesCommitted ==
    [][\A a \in TableNames :
        /\ (/\ columns[a].transaction_marker
            /\ call'.col = a
            /\ call'.op \in {"insert", "delete"}) =>
                /\ columns'[a]._vals = columns[a]._vals
                /\ mean(columns'[a]) = mean(columns[a])
        /\ begun'[a] =>
                /\ columns'[a].transaction_marker
                /\ columns'[a]._vals = begin_vals'[a]]_vars

\* C5 witness: a delete has just been staged in a transaction that also holds a
\* staged insert, on a column with committed values.
C5_Witness ==
    LET self == columns[tables[1]] IN
    /\ begun[tables[1]]
    /\ call.op = "delete"
    /\ DOMAIN self.trans_dict # {}
    /\ self.to_del # <<>>
    /\ mean(self)[2] > 0

\* C6: with the transaction off, insert of a batch none of whose keys is in
\* _vals raises nothing and leaves _vals the old _vals plus exactly the batch's
\* items; trans_dict and to_del stay empty and transaction_marker stays False.
C6_InsertImmediate ==
    \A a \in Called : ~columns[a].transaction_marker => \A values \in Batches :
        LET self == columns[a]
            r == insert(self, values)
        IN  Clash(self, values) = {} =>
                /\ r.raised = NoError
                /\ DOMAIN r.self._vals = DOMAIN self._vals \cup BatchKeys(values)
                /\ \A i \in DOMAIN values : r.self._vals[values[i][1]] = values[i][2]
                /\ \A k \in DOMAIN self._vals : r.self._vals[k] = self._vals[k]
                /\ r.self.trans_dict = EmptyDict
                /\ r.self.to_del = <<>>
                /\ r.self.transaction_marker = FALSE

\* C6 witness: an insert has just stored a value with the transaction off, and
\* a further non-empty batch of new keys can be stored.
C6_Witness ==
    LET self == columns[tables[1]] IN
    /\ call.op = "insert"
    /\ raised = NoError
    /\ ~self.transaction_marker
    /\ DOMAIN self._vals # {}
    /\ \E values \in Batches : values # <<>> /\ Clash(self, values) = {}

\* what C7 says of the insert of values, for the item i that is staged again
Restaged(self, values, i) ==
    LET r == insert(self, values) IN
    /\ r.raised = NoError
    /\ r.self.trans_dict[values[i][1]] = values[i][2]
    /\ \A k \in DOMAIN self.trans_dict \ BatchKeys(values) :
        k \in DOMAIN r.self.trans_dict /\ r.self.trans_dict[k] = self.trans_dict[k]
    /\ r.self.to_del = self.to_del
    /\ r.self._vals = self._vals

\* C7 (as claimed): in a transaction, insert of a batch that contains a key
\* that is in trans_dict and not in _vals raises nothing and leaves trans_dict
\* mapping that key to the new value, the other staged entries, to_del and
\* _vals unchanged.
C7_RestageAnyBatch ==
    \A a \in Called : \A values \in Batches : \A i \in DOMAIN values :
        LET self == columns[a] IN
        (/\ self.transaction_marker
         /\ values[i][1] \in DOMAIN self.trans_dict
         /\ values[i][1] \notin DOMAIN self._vals) => Restaged(self, values, i)

\* C7 (amended): the same, for a batch none of whose keys is in _vals.
C7_RestageValidBatch ==
    \A a \in Called : \A values \in Batches : \A i \in DOMAIN values :
        LET self == columns[a] IN
        (/\ self.transaction_marker
         /\ values[i][1] \in DOMAIN self.trans_dict
         /\ Clash(self, values) = {}) => Restaged(self, values, i)

\* C7 witness: an insert has just been staged, and a batch of new keys maps a
\* staged key to a value other than the staged one.
C7_Witness ==
    LET self == columns[tables[1]] IN
    /\ call.op = "insert"
    /\ raised = NoError
    /\ self.transaction_marker
    /\ \E values \in Batches : \E i \in DOMAIN values :
        /\ Clash(self, values) = {}
        /\ values[i][1] \in DOMAIN self.trans_dict
        /\ self.trans_dict[values[i][1]] # values[i][2]

\* C8 (as claimed): a key staged by insert and later passed to delete in the
\* same open transaction, and not inserted again, is not a key of _vals after
\* commit(), and the delete it is passed to does not add it to to_del.
C8_CancelledNeverCommitted ==
    [][\A a \in TableNames :
        /\ (call'.op = "commit" /\ call'.col = a) =>
                \A k \in cancelled[a] : k \notin DOMAIN columns'[a]._vals
        /\ (call'.op = "delete" /\ call'.col = a /\ columns[a].transaction_marker) =>
                \A keys \in KeyLists :
                    columns'[a] = delete(columns[a], keys).self =>
                        \A k \in Range(keys) \cap DOMAIN columns[a].trans_dict :
                            Count(k, columns'[a].to_del) = Count(k, columns[a].to_del)]_vars

\* C9: in a transaction, delete raises nothing, leaves _vals and
\* transaction_marker alone and treats each key in turn: a key of trans_dict
\* leaves trans_dict and nothing else changes for it; else a key of _vals is
\* added to to_del; a key of neither changes nothing. Keys not passed keep
\* their staged entry, and the keys already in to_del stay in front.
C9_DeleteStaged ==
    \A a \in Called : \A keys \in KeyLists :
        LET self == columns[a]
            r == delete(self, keys)
            td == self.trans_dict
            after == r.self.trans_dict
            more(k) == Count(k, r.self.to_del) - Count(k, self.to_del)
        IN  self.transaction_marker =>
            /\ r.raised = NoError
            /\ r.self._vals = self._vals
            /\ r.self.transaction_marker = TRUE
            /\ SubSeq(r.self.to_del, 1, Len(self.to_del)) = self.to_del
            /\ \A k \in Keys :
                LET n == Count(k, keys) IN
                IF n = 0
                THEN /\ more(k) = 0
                     /\ (k \in DOMAIN after) = (k \in DOMAIN td)
                     /\ k \in DOMAIN td => after[k] = td[k]
                ELSE IF k \in DOMAIN td
                THEN /\ k \notin DOMAIN after
                     /\ more(k) = IF k \in DOMAIN self._vals THEN n - 1 ELSE 0
                ELSE IF k \in DOMAIN self._vals
                THEN k \notin DOMAIN after /\ more(k) = n
                ELSE k \notin DOMAIN after /\ more(k) = 0

\* C9 witness: a delete has just run in a transaction that holds a staged
\* insert and a staged delete, and one list passes a staged key and a
\* committed key.
C9_Witness ==
    LET self == columns[tables[1]] IN
    /\ call.op = "delete"
    /\ self.transaction_marker
    /\ self.to_del # <<>>
    /\ \E keys \in KeyLists :
        /\ Range(keys) \cap DOMAIN self.trans_dict # {}
        /\ Range(keys) \cap (DOMAIN self._vals \ DOMAIN self.trans_dict) # {}

\* C10: with the transaction off, delete raises nothing, removes from _vals
\* exactly the passed keys that are in it (absent and repeated keys are passed
\* over), leaves every other entry as it was and leaves trans_dict and to_del
\* empty.
C10_DeleteImmediate ==
    \A a \in Called : \A keys \in KeyLists :
        LET self == columns[a]
            r == delete(self, keys)
        IN  ~self.transaction_marker =>
            /\ r.raised = NoError
            /\ DOMAIN r.self._vals = DOMAIN self._vals \ Range(keys)
            /\ \A k \in DOMAIN r.self._vals : r.self._vals[k] = self._vals[k]
            /\ r.self.trans_dict = EmptyDict
            /\ r.self.to_del = <<>>
            /\ r.self.transaction_marker = FALSE

\* C10 witness: a delete has just run with the transaction off and left a
\* value, and one list repeats a present key and another passes an absent one.
C10_Witness ==
    LET self == columns[tables[1]] IN
    /\ call.op = "delete"
    /\ raised = NoError
    /\ ~self.transaction_marker
    /\ \E keys \in KeyLists :
        /\ Len(keys) = 2 /\ keys[1] = keys[2] /\ keys[1] \in DOMAIN self._vals
    /\ \E keys \in KeyLists : Range(keys) \ DOMAIN self._vals # {}

\* C11: transaction() called while transaction_marker is True raises nothing
\* and leaves _vals, trans_dict and to_del as they were and transaction_marker
\* True, so commit() and rollback() do after it what they would have done
\* without it: they resolve everything staged since the first transaction().
C11_TransactionIdempotent ==
    \A a \in Called :
        LET self == columns[a]
            again == transaction(self)
        IN  self.transaction_marker =>
            /\ again = [self |-> self, raised |-> NoError]
            /\ commit(again.self) = commit(self)
            /\ rollback(again.self) = rollback(self)

\* C11 witness: transaction() has just been called on a column whose open
\* transaction already holds a staged insert and a staged delete.
C11_Witness ==
    LET self == columns[tables[1]] IN
    /\ call.op = "transaction"
    /\ self.transaction_marker
    /\ DOMAIN self.trans_dict # {}
    /\ self.to_del # <<>>

\* C12: in every reachable state with transaction_marker False, commit() and
\* rollback() raise nothing and leave _vals, trans_dict, to_del and
\* transaction_marker as they were.
C12_IdleCommitRollbackNoOp ==
    \A a \in Called :
        LET self == columns[a] IN
        ~self.transaction_marker =>
            /\ commit(self) = [self |-> self, raised |-> NoError]
            /\ rollback(self) = [self |-> self, raised |-> NoError]

\* C12 witness: rollback() has just run on a column that holds committed values
\* and has no open transaction, the state a further commit() or rollback()
\* acts on.
C12_Witness ==
    LET self == columns[tables[1]] IN
    /\ call.op = "rollback"
    /\ ~self.transaction_marker
    /\ Cardinality(DOMAIN self._vals) = 2

\* C13: a call of insert, delete, transaction, commit or rollback on one
\* Column of the Database leaves _vals, trans_dict, to_del and
\* transaction_marker of every other Column as they were.
C13_ColumnsIndependent ==
    [][\A a \in TableNames :
        (call'.op \in {"insert"} \cup Failing /\ call'.col # a) =>
            columns'[a] = columns[a]]_vars

\* C13 witness: commit() has just run on temperature, which holds committed
\* values, while pressure is in a transaction with a staged insert.
C13_Witness ==
    /\ call = [op |-> "commit", col |-> tables[1]]
    /\ raised = NoError
    /\ DOMAIN columns[tables[1]]._vals # {}
    /\ ~columns[tables[1]].transaction_marker
    /\ columns[tables[2]].transaction_marker
    /\ DOMAIN columns[tables[2]].trans_dict # {}

\* C14 (as claimed): looking a name up in the Database returns the Column of
\* that name for every table name, and fails with NoSuchColumn for every other
\* name.
C14_LookupByName ==
    call.op = "getattr" =>
        IF call.col \in TableNames
        THEN /\ raised = NoError
             /\ getattr(call.col).value = [kind |-> "Column", name |-> call.col]
        ELSE raised.type = "NoSuchColumn"

\* C15: in every reachable state of a Column, transaction_marker False means
\* trans_dict and to_del are both empty.
C15_IdleBuffersEmpty ==
    \A a \in TableNames :
        ~columns[a].transaction_marker =>
            columns[a].trans_dict = EmptyDict /\ columns[a].to_del = <<>>

\* C15 witness: a commit() has just ended a transaction without raising and
\* left committed values.
C15_Witness ==
    LET self == columns[tables[1]] IN
    /\ call.op = "commit"
    /\ raised = NoError
    /\ ~self.transaction_marker
    /\ DOMAIN self._vals # {}

\* C16 (as claimed): in every reachable state of a Column every key of to_del
\* is a key of _vals and is not a key of trans_dict.
C16_StagedDeletesCommitted ==
    \A a \in TableNames :
        \A k \in Range(columns[a].to_del) :
            k \in DOMAIN columns[a]._vals /\ k \notin DOMAIN columns[a].trans_dict

\* C17 (as claimed): in every reachable state of a Column each key is in to_del
\* at most once.
C17_StagedDeletesIsSet ==
    \A a \in TableNames : \A k \in Keys : Count(k, columns[a].to_del) <= 1

\* C18: transaction_marker becomes True only in a call of transaction(),
\* becomes False only in a call of commit() or rollback(), and no insert,
\* refused or not, and no delete changes it.
C18_MarkerStateMachine ==
    [][\A a \in TableNames :
        LET was == columns[a].transaction_marker
            is == columns'[a].transaction_marker
        IN  /\ (~was /\ is) => call' = [op |-> "transaction", col |-> a]
            /\ (was /\ ~is) => call'.op \in {"commit", "rollback"} /\ call'.col = a
            /\ call'.op \in {"insert", "delete"} => is = was]_vars

\* C18 witness: an insert has just been refused with the transaction off, and
\* the flag is still False.
C18_Witness ==
    LET self == columns[tables[1]] IN
    /\ call.op = "insert"
    /\ raised.type = "OverwriteNotAllowed"
    /\ ~self.transaction_marker

\* C19 (as claimed): in every reachable state of a Column no key of trans_dict
\* is a key of _vals.
C19_StagedInsertsNew ==
    \A a \in TableNames :
        DOMAIN columns[a].trans_dict \cap DOMAIN columns[a]._vals = {}

\* C20: while the transaction is on, a committed key that is staged for
\* deletion is still refused by insert: every batch that holds it raises
\* OverwriteNotAllowed and changes nothing, so the key is not staged for
\* insertion and its committed value is not replaced.
C20_DeletedKeyStillBlocks ==
    \A a \in Called :
        LET self == columns[a]
            held == Range(self.to_del) \cap DOMAIN self._vals
        IN  (self.transaction_marker /\ held # {}) =>
                \A values \in Batches :
                    BatchKeys(values) \cap held # {} =>
                        /\ insert(self, values).raised.type = "OverwriteNotAllowed"
                        /\ insert(self, values).self = self

\* C20 witness: in a transaction, insert has just been refused for a committed
\* key that is staged for deletion.
C20_Witness ==
    LET self == columns[tables[1]] IN
    /\ self.transaction_marker
    /\ call.op = "insert"
    /\ raised.type = "OverwriteNotAllowed"
    /\ raised.key \in Range(self.to_del) \cap DOMAIN self._vals

====
